---- MODULE Spec2Model ----
(***************************************************************************)
(* Trivia API (backend/flaskr/__init__.py, backend/utils.py).              *)
(*                                                                         *)
(* The state is the relational store (the Question and Category tables)    *)
(* together with the last HTTP request and the response it produced.  Each *)
(* route handler is an operator that maps the store and the request to the *)
(* response and the new Question table; each action performs one request.  *)
(*                                                                         *)
(* Text is a sequence of one-character strings so that ILIKE can be         *)
(* computed.  An optional JSON field / query argument is <<>> when absent  *)
(* (Python None) and <<v>> when present with value v.                      *)
(*                                                                         *)
(* Queries without ORDER BY are modelled as returning rows in primary-key  *)
(* order (the order PostgreSQL yields for an insert-only heap).            *)
(***************************************************************************)
EXTENDS Integers, Sequences, FiniteSets, TLC

VARIABLES questions, categories, next_id, seeded, request, response, session

vars == <<questions, categories, next_id, seeded, request, response, session>>

(* ------------------------------ bounds --------------------------------- *)
\* Largest number of questions the store is seeded with.
MaxSeed == 12
\* Largest number of successful inserts and deletes in one behaviour.
MaxWrites == 1
\* Largest explicit ?page= argument a request carries.
MaxPage == 3

(* --------------------------- program constants ------------------------- *)
QUESTIONS_PER_PAGE == 10

(* ------------------------------ values --------------------------------- *)
None == <<>>
Some(v) == <<v>>
IsNone(o) == o = <<>>
Val(o) == o[1]

Min(a, b) == IF a < b THEN a ELSE b
Max(a, b) == IF a > b THEN a ELSE b

\* Python truthiness of an optional text field: None and "" are falsy.
TruthyText(o) == ~IsNone(o) /\ Val(o) # <<>>
\* Python truthiness of an optional integer field: None and 0 are falsy.
TruthyInt(o) == ~IsNone(o) /\ Val(o) # 0

\* Case folding of ILIKE on the letters the model uses.
LowerChar(c) ==
    CASE c = "A" -> "a"
      [] c = "S" -> "s"
      [] c = "W" -> "w"
      [] c = "H" -> "h"
      [] c = "R" -> "r"
      [] c = "T" -> "t"
      [] OTHER -> c

\* column.ilike("%term%") for a term without % and _ : case-insensitive
\* substring match.
ILike(text, term) ==
    \E i \in 1..(Len(text) - Len(term) + 1) :
        \A j \in 1..Len(term) : LowerChar(text[i + j - 1]) = LowerChar(term[j])

\* Python list slice xs[start:end].
PySlice(xs, start, end) ==
    LET n == Len(xs)
        s == IF start < 0 THEN Max(n + start, 0) ELSE Min(start, n)
        e == IF end < 0 THEN Max(n + end, 0) ELSE Min(end, n)
    IN  IF s >= e THEN <<>> ELSE SubSeq(xs, s + 1, e)

Ids(rows) == {r.id : r \in rows}

\* query.order_by(Model.id).all(): the rows as a list in ascending id (ids are
\* a primary key, so the i-th row is the one with i-1 smaller ids).
OrderById(rows) ==
    [i \in 1..Cardinality(rows) |->
        CHOOSE r \in rows : Cardinality({x \in rows : x.id < r.id}) = i - 1]

\* query.filter(...).first(): the first matching row, None when there is none.
First(rows) ==
    IF rows = {} THEN None
    ELSE Some(CHOOSE r \in rows : \A x \in rows : r.id <= x.id)

(* ------------------------------ models --------------------------------- *)
\* Question.format(): the plain mapping of a row.
Format(q) ==
    [id |-> q.id, question |-> q.question, answer |-> q.answer,
     difficulty |-> q.difficulty, category |-> q.category]

\* Question(...).insert(): a new row whose id comes from the table's sequence.
Insert(qs, id, question, answer, difficulty, category) ==
    qs \cup {[id |-> id, question |-> question, answer |-> answer,
              difficulty |-> difficulty, category |-> category]}

\* question.delete(): the table without the row.
Delete(qs, q) == qs \ {q}

(* ------------------------------ utils.py ------------------------------- *)
\* paginate_resources(request, selection, max_page); page is the optional
\* ?page= argument, 1 when absent.
paginate_resources(page_arg, selection, max_page) ==
    LET page == IF IsNone(page_arg) THEN 1 ELSE Val(page_arg)
        start == (page - 1) * max_page
        end == start + max_page
        resources == [i \in 1..Len(selection) |-> Format(selection[i])]
    IN  PySlice(resources, start, end)

(* --------------------------- error handlers ---------------------------- *)
Message(code) ==
    CASE code = 400 -> "bad request"
      [] code = 404 -> "resource not found"
      [] code = 405 -> "Method Not Allowed"
      [] code = 422 -> "unprocessable"
      [] code = 500 -> "internal error"

\* abort(code) reaching the registered error handler.
ErrorResponse(code) ==
    [status |-> code,
     body |-> [success |-> FALSE, error |-> code, message |-> Message(code)]]

Ok(body) == [status |-> 200, body |-> body]

\* {category.id: category.type} over all categories.
CategoryMap(cats) == [i \in Ids(cats) |-> (CHOOSE c \in cats : c.id = i).type]

(* ------------------------------ handlers ------------------------------- *)
\* What a handler yields: the response and the Question table afterwards.
Result(resp, qs) == [response |-> resp, questions |-> qs]

\* GET /categories
get_categories(cats) ==
    Ok([success |-> TRUE, categories |-> CategoryMap(cats)])

\* The check of GET /questions made on the whole selection instead of the
\* page: a page beyond the last one then fails on current_questions[0].
get_questions_checks_selection(qs, cats, page_arg) ==
    LET selection == OrderById(qs)
        current_questions ==
            paginate_resources(page_arg, selection, QUESTIONS_PER_PAGE)
        current_category ==
            First({c \in cats : c.id = current_questions[1].category})
    IN  IF Len(selection) = 0 THEN ErrorResponse(404)
        ELSE IF Len(current_questions) = 0 THEN ErrorResponse(500)
        ELSE IF IsNone(current_category) THEN ErrorResponse(500)
        ELSE Ok([success |-> TRUE,
                 questions |-> current_questions,
                 total_questions |-> Len(selection),
                 current_category |-> Val(current_category).type,
                 categories |-> CategoryMap(cats)])

\* GET /questions?page=N.  Nothing here is inside a try block: abort(404)
\* reaches the 404 handler, and current_category.type on a None category is
\* an unhandled AttributeError, which Flask answers through the 500 handler.
get_questions(qs, cats, page_arg) ==
    LET selection == OrderById(qs)
        current_questions ==
            paginate_resources(page_arg, selection, QUESTIONS_PER_PAGE)
        current_category ==
            First({c \in cats : c.id = current_questions[1].category})
    IN  IF Len(current_questions) = 0 THEN ErrorResponse(404)
        ELSE IF IsNone(current_category) THEN ErrorResponse(500)
        ELSE Ok([success |-> TRUE,
                 questions |-> current_questions,
                 total_questions |-> Len(selection),
                 current_category |-> Val(current_category).type,
                 categories |-> CategoryMap(cats)])

\* The handler without its try block: the abort keeps its own status.
delete_question_reraises(code) == ErrorResponse(code)

\* The bare "except: abort(422)" of delete_question: whatever is raised in the
\* try block, an abort(code) included, is answered 422.
delete_question_except(code) == ErrorResponse(422)

\* The row is deleted in a session that is never committed.
delete_question_uncommitted(qs, question_id) ==
    LET question == First({q \in qs : q.id = question_id})
    IN  IF IsNone(question)
        THEN Result(delete_question_except(404), qs)
        ELSE Result(Ok([success |-> TRUE, deleted |-> question_id]), qs)

\* DELETE /questions/<question_id>.  abort(404) is raised inside the try
\* block.
delete_question(qs, question_id) ==
    LET question == First({q \in qs : q.id = question_id})
    IN  IF IsNone(question)
        THEN Result(delete_question_except(404), qs)
        ELSE Result(Ok([success |-> TRUE, deleted |-> question_id]),
                    Delete(qs, Val(question)))

\* The handler without its try block: the abort keeps its own status.
create_new_question_reraises(code) == ErrorResponse(code)

\* The bare "except: abort(422)" of create_new_question; an exception that is
\* no abort is given as code 500.
create_new_question_except(code) == ErrorResponse(422)

\* POST /questions: search, create or filter by category type, in that order.
create_new_question(qs, cats, id, body, page_arg) ==
    IF TruthyText(body.searchTerm) THEN
        LET selection ==
                OrderById({q \in qs : ILike(q.question, Val(body.searchTerm))})
            current_questions ==
                paginate_resources(page_arg, selection, QUESTIONS_PER_PAGE)
            current_category ==
                First({c \in cats : c.id = current_questions[1].category})
        IN  IF Len(current_questions) = 0                 \* IndexError on [0]
            THEN Result(create_new_question_except(500), qs)
            ELSE IF IsNone(current_category)          \* AttributeError on .type
            THEN Result(create_new_question_except(500), qs)
            ELSE Result(Ok([success |-> TRUE,
                            questions |-> current_questions,
                            total_questions |-> Len(selection),
                            current_category |-> Val(current_category).type]),
                        qs)
    ELSE IF /\ TruthyText(body.question) /\ TruthyText(body.answer)
            /\ TruthyInt(body.difficulty) /\ TruthyInt(body.category) THEN
        Result(Ok([success |-> TRUE]),
               Insert(qs, id, Val(body.question), Val(body.answer),
                      Val(body.difficulty), Val(body.category)))
    ELSE IF TruthyText(body.type) THEN
        LET matching == {c \in cats : ILike(c.type, Val(body.type))}
            category == CHOOSE c \in matching : TRUE
            selection == OrderById({q \in qs : q.category = category.id})
            current_questions ==
                paginate_resources(page_arg, selection, QUESTIONS_PER_PAGE)
        IN  IF Cardinality(matching) > 1                 \* MultipleResultsFound
            THEN Result(create_new_question_except(500), qs)
            ELSE IF matching = {}
            THEN Result(create_new_question_except(404), qs)
            ELSE Result(Ok([success |-> TRUE,
                            questions |-> current_questions,
                            total_questions |-> Len(selection),
                            current_category |-> category.type]),
                        qs)
    ELSE Result(create_new_question_except(400), qs)

\* The bare "except: abort(400)" of get_questions_from_category.
get_questions_from_category_except(code) == ErrorResponse(400)

\* GET /categories/<category_id>/questions?page=N.  abort(404) is raised
\* inside the try block.
get_questions_from_category(qs, cats, category_id, page_arg) ==
    LET category == First({c \in cats : c.id = category_id})
        selection == OrderById({q \in qs : q.category = category_id})
        current_questions ==
            paginate_resources(page_arg, selection, QUESTIONS_PER_PAGE)
    IN  IF IsNone(category) THEN get_questions_from_category_except(404)
        ELSE Ok([success |-> TRUE,
                 questions |-> current_questions,
                 total_questions |-> Len(selection),
                 current_category |-> Val(category).type])

\* The category filter left out of the query.
quiz_selection_any_category(qs, prev, quiz_cat) ==
    {q \in qs : q.id \notin prev}

\* The rows POST /quizzes selects: not in previous_questions and, with a
\* quiz_category, of that category.
quiz_selection(qs, prev, quiz_cat) ==
    IF IsNone(quiz_cat)
    THEN {q \in qs : q.id \notin prev}
    ELSE {q \in qs : q.id \notin prev /\ q.category = Val(quiz_cat).id}

\* The bare "except: abort(422)" of get_quizzes.
get_quizzes_except(code) == ErrorResponse(422)

\* The page cut from the questions of the category before the previous ones
\* are taken out of it.
get_quizzes_paginates_first(qs, prev_arg, quiz_cat, page_arg) ==
    IF IsNone(prev_arg) THEN {get_quizzes_except(500)}
    ELSE LET selection == OrderById(quiz_selection(qs, {}, quiz_cat))
             page == paginate_resources(page_arg, selection, QUESTIONS_PER_PAGE)
             current_questions == SelectSeq(page, LAMBDA q : q.id \notin Val(prev_arg))
         IN  IF Len(current_questions) = 0 THEN {get_quizzes_except(500)}
             ELSE {Ok([success |-> TRUE, question |-> current_questions[i]])
                       : i \in 1..Len(current_questions)}

\* POST /quizzes: the set of responses random.choice can produce.
\* previous_questions absent makes in_(None) raise, and random.choice raises
\* IndexError on an empty page.
get_quizzes(qs, prev_arg, quiz_cat, page_arg) ==
    IF IsNone(prev_arg) THEN {get_quizzes_except(500)}
    ELSE LET selection == OrderById(quiz_selection(qs, Val(prev_arg), quiz_cat))
             current_questions ==
                 paginate_resources(page_arg, selection, QUESTIONS_PER_PAGE)
         IN  IF Len(current_questions) = 0 THEN {get_quizzes_except(500)}
             ELSE {Ok([success |-> TRUE, question |-> current_questions[i]])
                       : i \in 1..Len(current_questions)}

(* ------------------------------- inputs -------------------------------- *)
PageArgs == {None} \cup {Some(p) : p \in 0..MaxPage}

SeedCategories ==
    {[id |-> 1, type |-> <<"A", "r", "t">>],
     [id |-> 2, type |-> <<"S", "p", "o", "r", "t", "s">>]}

\* Category ids no Category row has.
UnknownCategoryIds == {9}

\* The i-th seeded question; all but every twelfth are of category 1, so that
\* a category can hold more than a page of questions.
SeedQuestion(i) ==
    [id |-> i,
     question |-> IF i % 3 = 0 THEN <<"W", "h", "o">> ELSE <<"w", "h", "a", "t">>,
     answer |-> <<"x">>,
     difficulty |-> (i % 5) + 1,
     category |-> IF i % 12 = 3 THEN 2 ELSE 1]

\* JSON bodies of POST /questions: the four question fields all given, one of
\* them missing or falsy, or none given; with and without searchTerm and type.
GoodFields ==
    {[question |-> Some(<<"W", "h", "o">>), answer |-> Some(<<"y">>),
      difficulty |-> Some(2), category |-> Some(c)] : c \in {1, 9}}
NoFields ==
    [question |-> None, answer |-> None, difficulty |-> None, category |-> None]
FieldSets ==
    GoodFields
    \cup {[f EXCEPT !.question = None] : f \in GoodFields}
    \cup {[f EXCEPT !.answer = None] : f \in GoodFields}
    \cup {[f EXCEPT !.difficulty = v] : f \in GoodFields, v \in {None, Some(0)}}
    \cup {[f EXCEPT !.category = None] : f \in GoodFields}
    \cup {NoFields, [NoFields EXCEPT !.question = Some(<<"W", "h", "o">>)]}
Extras ==
    {[searchTerm |-> None, type |-> None],
     [searchTerm |-> Some(<<"H", "o">>), type |-> None],
     [searchTerm |-> Some(<<"z">>), type |-> None],
     [searchTerm |-> Some(<<>>), type |-> None],
     [searchTerm |-> Some(<<"h", "a">>), type |-> Some(<<"a", "r", "t">>)],
     [searchTerm |-> None, type |-> Some(<<"a", "r", "t">>)],
     [searchTerm |-> None, type |-> Some(<<"r", "t">>)],
     [searchTerm |-> None, type |-> Some(<<"z">>)]}
Bodies ==
    {[question |-> f.question, answer |-> f.answer, difficulty |-> f.difficulty,
      category |-> f.category, searchTerm |-> e.searchTerm, type |-> e.type]
        : f \in FieldSets, e \in Extras}

QuizCategories ==
    {None} \cup {Some([id |-> i]) : i \in Ids(SeedCategories) \cup UnknownCategoryIds}

(* ------------------------------- actions ------------------------------- *)
\* The questions created through the API are those with an id above the seed;
\* the ids handed out and no longer stored are those DELETE has removed.
Created == {q \in questions : q.id > seeded}
Deleted == (1..(next_id - 1)) \ Ids(questions)
Writes == (next_id - 1 - seeded) + Cardinality(Deleted)

\* A quiz client: the ids it has been given (it keeps them in a list that the
\* server only tests membership of), its category, and its count of answers.
NoSession == [previous_questions |-> {}, quiz_category |-> None, answered |-> 0]

Seeded(n) ==
    /\ questions = {SeedQuestion(i) : i \in 1..n}
    /\ next_id = n + 1
    /\ seeded = n
    /\ categories = SeedCategories
    /\ request = [op |-> "none"]
    /\ response = [status |-> 0]

Init ==
    /\ \E n \in 0..MaxSeed : Seeded(n)
    /\ session = NoSession

\* No request is being handled: the previous request context is gone.
Idle == request = [op |-> "none"]

\* The response leaves the application and the request context is popped.
Teardown ==
    /\ ~Idle
    /\ request' = [op |-> "none"]
    /\ response' = [status |-> 0]
    /\ UNCHANGED <<questions, categories, next_id, seeded, session>>

GetCategories ==
    /\ Idle
    /\ request' = [op |-> "get_categories"]
    /\ response' = get_categories(categories)
    /\ UNCHANGED <<questions, categories, next_id, seeded, session>>

GetQuestions(page_arg) ==
    /\ Idle
    /\ request' = [op |-> "get_questions", page |-> page_arg]
    /\ response' = get_questions(questions, categories, page_arg)
    /\ UNCHANGED <<questions, categories, next_id, seeded, session>>

DeleteQuestion(question_id) ==
    \E r \in {delete_question(questions, question_id)} :
        /\ Idle
        /\ r.questions # questions => Writes < MaxWrites
        /\ request' = [op |-> "delete_question", question_id |-> question_id]
        /\ response' = r.response
        /\ questions' = r.questions
        /\ UNCHANGED <<categories, next_id, seeded, session>>

CreateNewQuestion(body, page_arg) ==
    \E r \in {create_new_question(questions, categories, next_id, body, page_arg)} :
        /\ Idle
        /\ r.questions # questions => Writes < MaxWrites
        /\ request' = [op |-> "create_new_question", body |-> body, page |-> page_arg]
        /\ response' = r.response
        /\ questions' = r.questions
        /\ next_id' = IF r.questions # questions THEN next_id + 1 ELSE next_id
        /\ UNCHANGED <<categories, seeded, session>>

GetQuestionsFromCategory(category_id, page_arg) ==
    /\ Idle
    /\ request' = [op |-> "get_questions_from_category",
                   category_id |-> category_id, page |-> page_arg]
    /\ response' = get_questions_from_category(questions, categories,
                                                category_id, page_arg)
    /\ UNCHANGED <<questions, categories, next_id, seeded, session>>

GetQuizzes(prev_arg, quiz_cat, page_arg) ==
    /\ Idle
    /\ request' = [op |-> "get_quizzes", previous_questions |-> prev_arg,
                   quiz_category |-> quiz_cat, page |-> page_arg]
    /\ response' \in get_quizzes(questions, prev_arg, quiz_cat, page_arg)
    /\ UNCHANGED <<questions, categories, next_id, seeded, session>>

\* previous_questions of a free-standing quiz request: absent, empty, single
\* ids (stored, deleted or not yet handed out), a pair, or every id so far.
PrevArgs ==
    {None} \cup {Some(s) : s \in {{}, {1}, {2}, {1, 2}, {next_id},
                                  1..(next_id - 1), 2..(next_id - 1)}}

\* One step: the application handles one request of an idle server, or the
\* request in hand is torn down.
Next ==
    \/ Teardown
    \/ Idle /\ GetCategories
    \/ Idle /\ \E p \in PageArgs : GetQuestions(p)
    \/ Idle /\ \E i \in 1..next_id : DeleteQuestion(i)
    \/ Idle /\ \E b \in Bodies, p \in PageArgs : CreateNewQuestion(b, p)
    \/ Idle /\ \E c \in Ids(categories) \cup UnknownCategoryIds, p \in PageArgs :
                  GetQuestionsFromCategory(c, p)
    \/ Idle /\ \E s \in PrevArgs, c \in QuizCategories, p \in PageArgs :
                  GetQuizzes(s, c, p)

Spec == Init /\ [][Next]_vars

(* ----------------------------- quiz session ---------------------------- *)
\* The client of one quiz: it posts its list and its category without a page
\* argument and appends the id of the question it is given.
QuizSessionStep ==
    /\ Idle
    /\ request' = [op |-> "get_quizzes",
                   previous_questions |-> Some(session.previous_questions),
                   quiz_category |-> session.quiz_category, page |-> None]
    /\ response' \in get_quizzes(questions, Some(session.previous_questions),
                                 session.quiz_category, None)
    /\ session' =
          IF response'.status = 200
          THEN [session EXCEPT
                   !.previous_questions = @ \cup {response'.body.question.id},
                   !.answered = @ + 1]
          ELSE session
    /\ UNCHANGED <<questions, categories, next_id, seeded>>

InitSession ==
    /\ \E n \in 0..MaxSeed : Seeded(n)
    /\ \E c \in QuizCategories : session = [NoSession EXCEPT !.quiz_category = c]

NextSession ==
    \/ Teardown
    \/ QuizSessionStep

SpecSession == InitSession /\ [][NextSession]_vars

(* ------------------------------- claims -------------------------------- *)
Range(xs) == {xs[i] : i \in 1..Len(xs)}

\* The page a request asks for: 1 without a ?page= argument.
PageOf(req) == IF IsNone(req.page) THEN 1 ELSE Val(req.page)

\* The formatted questions a response carries.
QuestionsIn(resp) ==
    IF resp.status # 200 THEN {}
    ELSE IF "questions" \in DOMAIN resp.body THEN Range(resp.body.questions)
    ELSE IF "question" \in DOMAIN resp.body THEN {resp.body.question}
    ELSE {}

IsError(resp, code, message) ==
    /\ resp.status = code
    /\ resp.body = [success |-> FALSE, error |-> code, message |-> message]

\* C1: GET /categories/{id}/questions for an id of no stored Category answers
\* 404 "resource not found", whatever the questions and the page.
C1_MissingCategoryIs404 ==
    (/\ request.op = "get_questions_from_category"
     /\ request.category_id \notin Ids(categories))
        => IsError(response, 404, "resource not found")

\* C2: DELETE /questions/{id} for an id that is not stored answers 422
\* "unprocessable" and leaves the questions and the categories as they were.
C2_DeleteMissingIs422 ==
    [][(/\ Idle
        /\ request'.op = "delete_question"
        /\ request'.question_id \notin Ids(questions))
          => /\ IsError(response', 422, "unprocessable")
             /\ questions' = questions
             /\ categories' = categories]_vars

C2_Witness ==
    /\ request.op = "delete_question"
    /\ request.question_id \notin Ids(questions)
    /\ response.status = 422
    /\ Deleted = {}
    /\ questions # {}

\* C3: a successful POST /quizzes returns a stored question whose id is not in
\* previous_questions and, with a quiz_category, whose category is its id.
C3_QuizQuestionIsAdmissible ==
    (request.op = "get_quizzes" /\ response.status = 200)
        => /\ response.body.success = TRUE
           /\ response.body.question \in {Format(q) : q \in questions}
           /\ response.body.question.id \notin Val(request.previous_questions)
           /\ ~IsNone(request.quiz_category)
                => response.body.question.category = Val(request.quiz_category).id

\* A quiz answered although a stored question of the chosen category is in
\* previous_questions and a stored question of another category is not.
C3_Witness ==
    /\ request.op = "get_quizzes"
    /\ response.status = 200
    /\ ~IsNone(request.quiz_category)
    /\ \E q \in questions :
          /\ q.id \in Val(request.previous_questions)
          /\ q.category = Val(request.quiz_category).id
    /\ \E q \in questions :
          /\ q.id \notin Val(request.previous_questions)
          /\ q.category # Val(request.quiz_category).id

\* The body is one the handler takes as a create request: the four question
\* fields given with values Python reads as true, and no search term.
IsCreate(body) ==
    /\ ~TruthyText(body.searchTerm)
    /\ TruthyText(body.question) /\ TruthyText(body.answer)
    /\ TruthyInt(body.difficulty) /\ TruthyInt(body.category)

\* The index of the page that holds question q in the listing.
ListingPage(q) ==
    ((Cardinality({x \in questions : x.id < q.id})) \div QUESTIONS_PER_PAGE) + 1

\* C4: a POST /questions with the four question fields answers success, the
\* question is stored with those values and one more question is counted, and
\* GET /questions on the page that holds it returns it.
C4_CreatedQuestionIsListed ==
    [][/\ (/\ Idle
           /\ request'.op = "create_new_question"
           /\ IsCreate(request'.body))
             => /\ response'.status = 200
                /\ response'.body.success = TRUE
                /\ \E q \in questions' :
                      /\ q \notin questions
                      /\ q.question = Val(request'.body.question)
                      /\ q.answer = Val(request'.body.answer)
                      /\ q.difficulty = Val(request'.body.difficulty)
                      /\ q.category = Val(request'.body.category)
                /\ Cardinality(questions') = Cardinality(questions) + 1
       /\ (Idle /\ request'.op = "get_questions")
             => \A q \in Created :
                   ListingPage(q) = PageOf(request')
                      => /\ response'.status = 200
                         /\ Format(q) \in QuestionsIn(response')
      ]_vars

\* C5: DELETE /questions/{id} for a stored id answers 200 {success, deleted:
\* id} and removes that question and nothing else; a deleted id is never
\* stored again and no later response carries a question with that id.
C5_DeleteIsPermanent ==
    [][/\ (/\ Idle
           /\ request'.op = "delete_question"
           /\ request'.question_id \in Ids(questions))
             => /\ response' = Ok([success |-> TRUE,
                                   deleted |-> request'.question_id])
                /\ questions' = {q \in questions : q.id # request'.question_id}
                /\ categories' = categories
       /\ \A i \in Deleted :
             /\ i \notin Ids(questions')
             /\ \A q \in QuestionsIn(response') : q.id # i
       /\ \A q \in QuestionsIn(response') : q.id \in Ids(questions')
      ]_vars

\* After a delete, a later listing, search, filter or quiz has answered with
\* questions.
C5_Witness ==
    /\ Deleted # {}
    /\ request.op # "delete_question"
    /\ QuestionsIn(response) # {}

\* C6: with N questions and a page p >= 1 with (p-1)*10 < N, GET
\* /questions?page=p returns the questions at positions (p-1)*10 .. p*10 of the
\* questions in ascending id, min(10, N-(p-1)*10) of them, and total N.
C6_ListingPage ==
    LET N == Cardinality(questions)
        p == PageOf(request)
        first == (p - 1) * QUESTIONS_PER_PAGE
        sorted == OrderById(questions)
    IN  (request.op = "get_questions" /\ p >= 1 /\ first < N)
            => /\ response.status = 200
               /\ Len(response.body.questions)
                     = Min(QUESTIONS_PER_PAGE, N - first)
               /\ \A i \in 1..Len(response.body.questions) :
                     response.body.questions[i] = Format(sorted[first + i])
               /\ \A i \in 1..(Len(response.body.questions) - 1) :
                     response.body.questions[i].id < response.body.questions[i + 1].id
               /\ response.body.total_questions = N

\* C7: a POST /questions without searchTerm and type that lacks one of the
\* four question fields answers 422 "unprocessable" and stores nothing.
C7_IncompleteCreateIs422 ==
    [][(/\ Idle
        /\ request'.op = "create_new_question"
        /\ IsNone(request'.body.searchTerm)
        /\ IsNone(request'.body.type)
        /\ \/ IsNone(request'.body.question) \/ IsNone(request'.body.answer)
           \/ IsNone(request'.body.difficulty) \/ IsNone(request'.body.category))
          => /\ IsError(response', 422, "unprocessable")
             /\ questions' = questions
             /\ categories' = categories
             /\ next_id' = next_id]_vars

\* The request of the test: only the question text is given.
C7_Witness ==
    /\ request.op = "create_new_question"
    /\ request.body = [NoFields EXCEPT !.question = Some(<<"W", "h", "o">>)]
                         @@ [searchTerm |-> None, type |-> None]
    /\ response.status = 422
    /\ questions # {}

\* C8: with N questions, GET /questions?page=p with (p-1)*10 >= N answers 404
\* "resource not found".
C8_PageBeyondLastIs404 ==
    (/\ request.op = "get_questions"
     /\ (PageOf(request) - 1) * QUESTIONS_PER_PAGE >= Cardinality(questions))
        => IsError(response, 404, "resource not found")

\* The page after the last one of a store of more than one page.
C8_Witness ==
    /\ request.op = "get_questions"
    /\ Cardinality(questions) > QUESTIONS_PER_PAGE
    /\ (PageOf(request) - 1) * QUESTIONS_PER_PAGE >= Cardinality(questions)
    /\ response.status = 404

\* The first formatted question of the page the request asks for, of the
\* listing or of the search; None when that page is empty.
PageHead(req) ==
    LET selection ==
            IF req.op = "get_questions" THEN OrderById(questions)
            ELSE OrderById({q \in questions :
                              ILike(q.question, Val(req.body.searchTerm))})
        page == paginate_resources(req.page, selection, QUESTIONS_PER_PAGE)
    IN  IF Len(page) = 0 THEN None ELSE Some(page[1])

\* C9: a GET /questions or a search whose page starts with a question whose
\* category id is the id of no Category answers 404 "resource not found".
C9_DanglingCategoryIs404 ==
    (/\ \/ request.op = "get_questions"
        \/ /\ request.op = "create_new_question"
           /\ TruthyText(request.body.searchTerm)
     /\ ~IsNone(PageHead(request))
     /\ Val(PageHead(request)).category \notin Ids(categories))
        => IsError(response, 404, "resource not found")

\* The questions a session can be given: all, or those of its category.
Candidates == quiz_selection(questions, {}, session.quiz_category)

\* C10: a quiz client is never given a question twice, is given as many
\* questions as there are candidates, also when there are more than 10, and
\* is answered 422 on every request after that.
C10_SessionExhaustsCandidates ==
    /\ session.answered = Cardinality(session.previous_questions)
    /\ session.previous_questions \subseteq Ids(Candidates)
    /\ (request.op = "get_quizzes" /\ response.status = 200)
          => response.body.question.id \in session.previous_questions
    /\ (request.op = "get_quizzes" /\ response.status # 200)
          => /\ IsError(response, 422, "unprocessable")
             /\ session.answered = Cardinality(Candidates)
    /\ (request.op = "get_quizzes"
          /\ session.previous_questions # Ids(Candidates))
          => response.status = 200

\* A session of more than 10 candidates answered 422 after all were given.
C10_Witness ==
    /\ request.op = "get_quizzes"
    /\ response.status = 422
    /\ Cardinality(Candidates) > QUESTIONS_PER_PAGE
    /\ session.answered = Cardinality(Candidates)

====
